---- MODULE Spec2Model ----
(***************************************************************************)
(* CRUD REST API over two tables, users and products (NestJS + TypeORM on  *)
(* PostgreSQL).  The model holds the two tables, the id sequences, a       *)
(* logical clock for the system-managed timestamps, and the last response. *)
(* Spec is the users service one request at a time, SpecProducts the       *)
(* products service one request at a time, SpecAll both of them, SpecConc  *)
(* the users service with requests interleaved at their awaits, SpecBody   *)
(* the users service with PATCH bodies that carry a property id.           *)
(***************************************************************************)
EXTENDS Integers, FiniteSets, Sequences, TLC

VARIABLES
    users,       \* rows of table users
    userSeq,     \* next value of the users id sequence
    products,    \* rows of table products
    productSeq,  \* next value of the products id sequence
    now,         \* logical clock: the number of writes committed so far
    last,        \* the last request handled and its response
    reqs         \* requests in flight (SpecConc): one slot per task

vars == <<users, userSeq, products, productSeq, now, last, reqs>>

(***************************************************************************)
(* Bounds                                                                  *)
(***************************************************************************)
\* writes to table users per behaviour (each write advances the clock by one)
MaxClock == 3

\* writes to table users per behaviour when a PATCH body may carry an id
MaxBodyClock == 2

\* writes to table products per behaviour
MaxProductClock == 2

\* writes per behaviour when both controllers take requests
MaxAllClock == 2

\* concurrent requests to UsersController, each handled by a task of its own
NumTasks == 3
Tasks == 1 .. NumTasks

Names == {"Ana Ruiz", "Bob Diaz"}
Emails == {"ana@x.com", "bob@x.com"}
Ages == {30}

(***************************************************************************)
(* Values                                                                  *)
(***************************************************************************)
\* SQL NULL of the nullable int column age (the DTO admits only 1..150)
Null == 0

\* an object with no property: the body of a request without payload
NoBody == [f \in {} |-> 0]

\* the absence of a row (findOne resolved to null)
NoRow == [id |-> 0]

Has(o, f) == f \in DOMAIN o

\* SQL NULL of the nullable text column description
NullText == "<null>"

\* two product payloads; a request carries some of the properties of one
ProductPayloads ==
    { [name |-> "Pen", description |-> "blue", price |-> 1000, stock |-> 5,
       category |-> "office", isAvailable |-> TRUE],
      [name |-> "Ink", description |-> "black", price |-> 1999, stock |-> 0,
       category |-> "art", isAvailable |-> FALSE] }

\* payloads that pass ValidationPipe for CreateProductDto: name, price and
\* category required, description, stock and isAvailable optional; prices
\* are kept in hundredths (at most two decimal places)
CreateProductDto ==
    { [f \in {"name", "price", "category"} \cup S |-> p[f]] :
        S \in SUBSET {"description", "stock", "isAvailable"},
        p \in ProductPayloads }

\* payloads of PATCH /products/:id: every field optional
UpdateProductDto ==
    { [f \in S |-> p[f]] :
        S \in SUBSET {"name", "description", "price", "stock", "category",
                      "isAvailable"},
        p \in ProductPayloads }

\* a payload with a negative stock in place of its stock
NegativeStock(body) == [body EXCEPT !.stock = -1]

\* bodies of POST /products: the valid payloads, and payloads with the
\* required fields and a negative stock
CreateProductBody ==
    CreateProductDto \cup
    { NegativeStock(d) : d \in { x \in CreateProductDto :
                                   DOMAIN x = {"name", "price", "category", "stock"} } }

\* bodies of PATCH /products/:id: the valid payloads, and payloads with a
\* negative stock
UpdateProductBody ==
    UpdateProductDto \cup
    { NegativeStock(d) : d \in { x \in UpdateProductDto :
                                   DOMAIN x \in {{"stock"}, {"stock", "price"}} } }

\* ValidationPipe on CreateProductDto, for the bodies above: name, price and
\* category are required, price is positive, stock is an integer >= 0
CreateProductDtoValid(body) ==
    /\ {"name", "price", "category"} \subseteq DOMAIN body
    /\ body.price > 0
    /\ Has(body, "stock") => body.stock >= 0

\* ValidationPipe on UpdateProductDto: the constraints of CreateProductDto on
\* the fields the body has
UpdateProductDtoValid(body) ==
    /\ Has(body, "price") => body.price > 0
    /\ Has(body, "stock") => body.stock >= 0

\* min and max of GET /products/price-range, in whole units
PriceBounds == {10, 19, 20}
\* the stock of PUT /products/:id/stock: any integer ParseIntPipe accepts
StockInputs == {-1, 0, 5}
\* the threshold of GET /products/low-stock: any integer ParseIntPipe accepts
Thresholds == {0, 4, 5}

UserField(f, n, e, a, i) ==
    CASE f = "name" -> n
      [] f = "email" -> e
      [] f = "age" -> a
      [] OTHER -> i

\* payloads that pass ValidationPipe for CreateUserDto: name and email
\* required, age and isActive optional
CreateUserDto ==
    { [f \in {"name", "email"} \cup S |-> UserField(f, n, e, a, i)] :
        S \in SUBSET {"age", "isActive"},
        n \in Names, e \in Emails, a \in Ages, i \in BOOLEAN }

\* payloads that pass ValidationPipe for UpdateUserDto: every field optional
UpdateUserDto ==
    { [f \in S |-> UserField(f, n, e, a, i)] :
        S \in SUBSET {"name", "email", "age", "isActive"},
        n \in Names, e \in Emails, a \in Ages, i \in BOOLEAN }

\* bodies of PATCH /users/:id that carry, next to fields of UpdateUserDto, a
\* property id: ValidationPipe is given no whitelist option and lets it pass
UpdateUserIdBody(id) ==
    { [f \in DOMAIN d \cup {"id"} |-> IF f = "id" THEN id ELSE d[f]] :
        d \in { x \in UpdateUserDto : DOMAIN x \in {{}, {"email"}} } }

\* ObjectAssign as a replace-whole-record would have it: a property the
\* source lacks is reset (age to NULL)
ObjectAssignReplacing(target, source) ==
    [f \in DOMAIN target \cup DOMAIN source |->
        IF f \in DOMAIN source THEN source[f]
        ELSE IF f = "age" THEN Null ELSE target[f]]

\* Object.assign(target, source): source's own properties overwrite target's
ObjectAssign(target, source) ==
    [f \in DOMAIN target \cup DOMAIN source |->
        IF f \in DOMAIN source THEN source[f] ELSE target[f]]

(***************************************************************************)
(* Table users and its repository                                          *)
(***************************************************************************)
\* the row of a new User entity: columns the entity leaves undefined take
\* their column default (age NULL, isActive true, both timestamps now)
UserRow(id, entity, t) ==
    [id |-> id,
     name |-> entity.name,
     email |-> entity.email,
     age |-> IF Has(entity, "age") THEN entity.age ELSE Null,
     isActive |-> IF Has(entity, "isActive") THEN entity.isActive ELSE TRUE,
     createdAt |-> IF Has(entity, "createdAt") THEN entity.createdAt ELSE t,
     updatedAt |-> IF Has(entity, "updatedAt") THEN entity.updatedAt ELSE t]

\* EmailTaken of a schema without the unique constraint
EmailTakenNever(store, row) == FALSE

\* the unique constraint on users.email, as the store sees a row to be written
EmailTaken(store, row) ==
    \E r \in store : r.email = row.email /\ r.id # row.id

\* the primary key of users, as the store sees an insert under id
IdTaken(store, id) ==
    \E r \in store : r.id = id

\* this._userRepository.findOne({ where: { id } })
UserFindOneById(store, id) ==
    IF \E r \in store : r.id = id
    THEN CHOOSE r \in store : r.id = id
    ELSE NoRow

\* UserFindOneByEmail restricted to active users
UserFindOneByEmailActive(store, email) ==
    IF \E r \in store : r.email = email /\ r.isActive
    THEN CHOOSE r \in store : r.email = email /\ r.isActive
    ELSE NoRow

\* this._userRepository.findOne({ where: { email } })
UserFindOneByEmail(store, email) ==
    IF \E r \in store : r.email = email
    THEN CHOOSE r \in store : r.email = email
    ELSE NoRow

\* this._userRepository.create(dto): a User entity with the dto's properties
UserRepoCreate(dto) == dto

\* this._userRepository.save(entity).  An entity without id is inserted under
\* the next sequence value.  An entity with id is compared with the stored
\* row of that id: the columns that differ are updated (and updatedAt set);
\* nothing is written when none differs; the entity is inserted under its id
\* when no such row is stored.  A write that breaks the unique constraint on
\* email fails and changes no row (the sequence value of a failed insert is
\* spent).  The result carries the entity as save returns it: the values the
\* store generated are merged into it, and a nullable column it left
\* undefined is null.
UserRepoSave(store, seq, entity, t) ==
    IF ~Has(entity, "id")
    THEN LET row == UserRow(seq, entity, t) IN
         IF EmailTaken(store, row) \/ IdTaken(store, seq)
         THEN [err |-> TRUE, store |-> store, seq |-> seq + 1,
               wrote |-> FALSE, entity |-> entity]
         ELSE [err |-> FALSE, store |-> store \cup {row}, seq |-> seq + 1,
               wrote |-> TRUE, entity |-> ObjectAssign(entity, row)]
    ELSE LET old == UserFindOneById(store, entity.id) IN
         IF old = NoRow
         THEN LET row == UserRow(entity.id, entity, t) IN
              IF EmailTaken(store, row)
              THEN [err |-> TRUE, store |-> store, seq |-> seq,
                    wrote |-> FALSE, entity |-> entity]
              ELSE [err |-> FALSE, store |-> store \cup {row}, seq |-> seq,
                    wrote |-> TRUE, entity |-> ObjectAssign(entity, row)]
         ELSE LET new == [ObjectAssign(old, entity) EXCEPT
                             !.createdAt = old.createdAt,
                             !.updatedAt = old.updatedAt]
              IN
              IF new = old
              THEN [err |-> FALSE, store |-> store, seq |-> seq,
                    wrote |-> FALSE, entity |-> entity]
              ELSE IF EmailTaken(store, new)
              THEN [err |-> TRUE, store |-> store, seq |-> seq,
                    wrote |-> FALSE, entity |-> entity]
              ELSE LET row == [new EXCEPT !.updatedAt = t] IN
                   [err |-> FALSE,
                    store |-> (store \ {old}) \cup {row},
                    seq |-> seq, wrote |-> TRUE,
                    entity |-> ObjectAssign(entity,
                                 [updatedAt |-> row.updatedAt])]

\* this._userRepository.remove(entity): DELETE of the row with the entity's id
UserRepoRemove(store, entity) ==
    { r \in store : r.id # entity.id }

(***************************************************************************)
(* UsersService                                                            *)
(***************************************************************************)
\* ValidateEmailUniqueness looking at active users only
ValidateEmailUniquenessActive(store, email) ==
    \E r \in store : r.email = email /\ r.isActive

\* _validateEmailUniqueness(email): TRUE when it throws ConflictException
ValidateEmailUniqueness(store, email) ==
    UserFindOneByEmail(store, email) # NoRow

\* EmailChanged without the comparison with the user's own email
EmailChangedAlways(user, dto) == Has(dto, "email")

\* update's guard before the uniqueness check
EmailChanged(user, dto) ==
    Has(dto, "email") /\ dto.email # user.email

\* what a handler leaves behind: its response (outcome and body) and the
\* store after it; wrote tells whether a write was committed
Result(outcome, body, store, seq, wrote) ==
    [outcome |-> outcome, body |-> body, store |-> store, seq |-> seq,
     wrote |-> wrote]

\* UsersService.create, from the store it finds to the result it leaves
UsersService_create(store, seq, t, dto) ==
    IF ValidateEmailUniqueness(store, dto.email)
    THEN Result("Conflict", NoRow, store, seq, FALSE)
    ELSE LET s == UserRepoSave(store, seq, UserRepoCreate(dto), t) IN
         IF s.err
         THEN Result("BadRequest", NoRow, s.store, s.seq, s.wrote)
         ELSE Result("Ok", s.entity, s.store, s.seq, s.wrote)

\* UsersService.findOne
UsersService_findOne(store, seq, id) ==
    LET user == UserFindOneById(store, id) IN
    IF user = NoRow
    THEN Result("NotFound", NoRow, store, seq, FALSE)
    ELSE Result("Ok", user, store, seq, FALSE)

\* UsersService.update
UsersService_update(store, seq, t, id, dto) ==
    LET found == UsersService_findOne(store, seq, id) IN
    IF found.outcome # "Ok"
    THEN found
    ELSE IF EmailChanged(found.body, dto)
            /\ ValidateEmailUniqueness(store, dto.email)
    THEN Result("Conflict", NoRow, store, seq, FALSE)
    ELSE LET s == UserRepoSave(store, seq, ObjectAssign(found.body, dto), t) IN
         IF s.err
         THEN Result("InternalError", NoRow, s.store, s.seq, s.wrote)
         ELSE Result("Ok", s.entity, s.store, s.seq, s.wrote)

\* remove implemented as hardDelete is: the row is deleted
UsersService_removeDeleting(store, seq, t, id) ==
    LET found == UsersService_findOne(store, seq, id) IN
    IF found.outcome # "Ok"
    THEN found
    ELSE Result("Ok", NoRow, UserRepoRemove(store, found.body), seq, TRUE)

\* UsersService.remove (soft delete)
UsersService_remove(store, seq, t, id) ==
    LET found == UsersService_findOne(store, seq, id) IN
    IF found.outcome # "Ok"
    THEN found
    ELSE LET s == UserRepoSave(store, seq,
                               [found.body EXCEPT !.isActive = FALSE], t) IN
         IF s.err
         THEN Result("InternalError", NoRow, s.store, s.seq, s.wrote)
         ELSE Result("Ok", NoRow, s.store, s.seq, s.wrote)

\* UsersService.hardDelete
UsersService_hardDelete(store, seq, id) ==
    LET found == UsersService_findOne(store, seq, id) IN
    IF found.outcome # "Ok"
    THEN found
    ELSE Result("Ok", NoRow, UserRepoRemove(store, found.body), seq, TRUE)

(***************************************************************************)
(* Table products and ProductsService                                      *)
(***************************************************************************)
\* this._productRepository.createQueryBuilder('product')
\*     .where('product.id = :id', { id }).getOne()
ProductGetOneById(store, id) ==
    IF \E r \in store : r.id = id
    THEN CHOOSE r \in store : r.id = id
    ELSE NoRow

\* createProductDto.stock || 0
StockOrZero(dto) ==
    IF Has(dto, "stock") /\ dto.stock # 0 THEN dto.stock ELSE 0

\* AvailableOrTrue written with || for ??: false counts as missing
AvailableOrTrueTruthy(dto) ==
    IF Has(dto, "isAvailable") /\ dto.isAvailable THEN dto.isAvailable ELSE TRUE

\* createProductDto.isAvailable ?? true
AvailableOrTrue(dto) ==
    IF Has(dto, "isAvailable") THEN dto.isAvailable ELSE TRUE

\* .insert().into(Product).values({...}).returning('*').execute(): the row
\* inserted under the next sequence value, both timestamps set
ProductInsertValues(seq, dto, t) ==
    [id |-> seq,
     name |-> dto.name,
     description |-> IF Has(dto, "description") THEN dto.description ELSE NullText,
     price |-> dto.price,
     stock |-> StockOrZero(dto),
     category |-> dto.category,
     isAvailable |-> AvailableOrTrue(dto),
     createdAt |-> t,
     updatedAt |-> t]

\* UpdateColumns of an entity without @UpdateDateColumn
UpdateColumnsOfSet(set) == DOMAIN set

\* the columns an UPDATE of products assigns: those of .set(...), and
\* updatedAt, which the query builder adds for the @UpdateDateColumn
UpdateColumns(set) == DOMAIN set \cup {"updatedAt"}

\* .update(Product).set(set).where('id = :id', { id }).execute(); an UPDATE
\* that would assign no column is refused before it reaches the store
ProductUpdateSet(store, id, set, t) ==
    IF UpdateColumns(set) = {}
    THEN [err |-> TRUE, store |-> store]
    ELSE [err |-> FALSE,
          store |-> { IF r.id = id
                      THEN [f \in DOMAIN r |->
                              IF f \in DOMAIN set THEN set[f]
                              ELSE IF f \in UpdateColumns(set) THEN t
                              ELSE r[f]]
                      ELSE r : r \in store }]

\* .delete().from(Product).where('id = :id', { id }).execute()
ProductDeleteById(store, id) ==
    { r \in store : r.id # id }

\* ValidateStock off by one
ValidateStockBelow(stock) == stock < -1

\* ValidateStock that never throws
ValidateStockNever(stock) == FALSE

\* _validateStock(stock): TRUE when it throws BadRequestException
ValidateStock(stock) == stock < 0

\* ProductsService.create
ProductsService_create(store, seq, t, dto) ==
    LET createdProduct == ProductInsertValues(seq, dto, t) IN
    Result("Ok", createdProduct, store \cup {createdProduct}, seq + 1, TRUE)

\* ProductsService.findOne without the check for a missing row
ProductsService_findOneUnchecked(store, seq, id) ==
    Result("Ok", ProductGetOneById(store, id), store, seq, FALSE)

\* ProductsService.findOne
ProductsService_findOne(store, seq, id) ==
    LET product == ProductGetOneById(store, id) IN
    IF product = NoRow
    THEN Result("NotFound", NoRow, store, seq, FALSE)
    ELSE Result("Ok", product, store, seq, FALSE)

\* the updateData update builds: the dto's properties that are not undefined
UpdateData(dto) ==
    [f \in DOMAIN dto \cap
           {"name", "description", "price", "stock", "category", "isAvailable"}
       |-> dto[f]]

\* ProductsService.update
ProductsService_update(store, seq, t, id, dto) ==
    LET found == ProductsService_findOne(store, seq, id) IN
    IF found.outcome # "Ok"
    THEN found
    ELSE LET u == ProductUpdateSet(store, id, UpdateData(dto), t) IN
         IF u.err
         THEN Result("InternalError", NoRow, store, seq, FALSE)
         ELSE LET again == ProductsService_findOne(u.store, seq, id) IN
              Result(again.outcome, again.body, u.store, seq, TRUE)

\* updateStock with the stock validated before the row is loaded
ProductsService_updateStockValidatingFirst(store, seq, t, id, newStock) ==
    IF ValidateStock(newStock)
    THEN Result("BadRequest", NoRow, store, seq, FALSE)
    ELSE LET found == ProductsService_findOne(store, seq, id) IN
         IF found.outcome # "Ok"
         THEN found
         ELSE LET u == ProductUpdateSet(store, id, [stock |-> newStock], t) IN
              Result("Ok", NoRow, u.store, seq, TRUE)

\* ProductsService.updateStock
ProductsService_updateStock(store, seq, t, id, newStock) ==
    LET found == ProductsService_findOne(store, seq, id) IN
    IF found.outcome # "Ok"
    THEN found
    ELSE IF ValidateStock(newStock)
    THEN Result("BadRequest", NoRow, store, seq, FALSE)
    ELSE LET u == ProductUpdateSet(store, id, [stock |-> newStock], t) IN
         Result("Ok", NoRow, u.store, seq, TRUE)

\* ProductsService.remove
ProductsService_remove(store, seq, id) ==
    LET found == ProductsService_findOne(store, seq, id) IN
    IF found.outcome # "Ok"
    THEN found
    ELSE Result("Ok", NoRow, ProductDeleteById(store, id), seq, TRUE)

\* softDelete implemented as remove is: the row is deleted
ProductsService_softDeleteDeleting(store, seq, t, id) ==
    ProductsService_remove(store, seq, id)

\* ProductsService.softDelete
ProductsService_softDelete(store, seq, t, id) ==
    LET found == ProductsService_findOne(store, seq, id) IN
    IF found.outcome # "Ok"
    THEN found
    ELSE LET u == ProductUpdateSet(store, id, [isAvailable |-> FALSE], t) IN
         Result("Ok", NoRow, u.store, seq, TRUE)

\* ProductsService.hardDelete
ProductsService_hardDelete(store, seq, id) ==
    LET found == ProductsService_findOne(store, seq, id) IN
    IF found.outcome # "Ok"
    THEN found
    ELSE Result("Ok", NoRow, ProductDeleteById(store, id), seq, TRUE)

\* findByPriceRange with the upper bound exclusive
ProductsService_findByPriceRangeExclusive(store, seq, min, max) ==
    Result("Ok",
           { r \in store : min * 100 <= r.price /\ r.price < max * 100 },
           store, seq, FALSE)

\* ProductsService.findByPriceRange(min, max): the rows whose price lies in
\* the inclusive range; min and max are whole currency units (ParseIntPipe),
\* prices are kept in hundredths
ProductsService_findByPriceRange(store, seq, min, max) ==
    Result("Ok",
           { r \in store : min * 100 <= r.price /\ r.price <= max * 100 },
           store, seq, FALSE)

\* findLowStock with the threshold exclusive
ProductsService_findLowStockBelow(store, seq, threshold) ==
    Result("Ok", { r \in store : r.stock < threshold }, store, seq, FALSE)

\* ProductsService.findLowStock(threshold): the rows whose stock is at most
\* the threshold
ProductsService_findLowStock(store, seq, threshold) ==
    Result("Ok", { r \in store : r.stock <= threshold }, store, seq, FALSE)

(***************************************************************************)
(* Requests handled one at a time                                          *)
(***************************************************************************)
Response(op, id, r) ==
    [op |-> op, id |-> id, outcome |-> r.outcome, body |-> r.body]

\* a write is committed at the next tick of the clock
Tick(wrote, max) ==
    /\ wrote => now < max
    /\ now' = IF wrote THEN now + 1 ELSE now

\* the users table after a request of UsersController
UsersDone(op, id, r) ==
    /\ Tick(r.wrote, MaxClock)
    /\ users' = r.store
    /\ userSeq' = r.seq
    /\ last' = Response(op, id, r)
    /\ UNCHANGED <<products, productSeq, reqs>>

\* POST /users
UsersCreate(dto) ==
    UsersDone("create", 0, UsersService_create(users, userSeq, now + 1, dto))

\* GET /users/:id
UsersFindOne(id) ==
    UsersDone("findOne", id, UsersService_findOne(users, userSeq, id))

\* PATCH /users/:id
UsersUpdate(id, dto) ==
    UsersDone("update", id, UsersService_update(users, userSeq, now + 1, id, dto))

\* DELETE /users/:id
UsersRemove(id) ==
    UsersDone("remove", id, UsersService_remove(users, userSeq, now + 1, id))

\* DELETE /users/:id/hard
UsersHardDelete(id) ==
    UsersDone("hardDelete", id, UsersService_hardDelete(users, userSeq, id))

\* the products table after a request of ProductsController
ProductsDone(op, id, r) ==
    /\ Tick(r.wrote, MaxProductClock)
    /\ products' = r.store
    /\ productSeq' = r.seq
    /\ last' = Response(op, id, r)
    /\ UNCHANGED <<users, userSeq, reqs>>

\* a request ValidationPipe refuses: BadRequest before the service is called
Refused(store, seq) == Result("BadRequest", NoRow, store, seq, FALSE)

\* POST /products
ProductsCreate(dto) ==
    ProductsDone("create", 0,
                 IF CreateProductDtoValid(dto)
                 THEN ProductsService_create(products, productSeq, now + 1, dto)
                 ELSE Refused(products, productSeq))

\* GET /products/:id
ProductsFindOne(id) ==
    ProductsDone("findOne", id, ProductsService_findOne(products, productSeq, id))

\* GET /products/price-range?min=&max=
ProductsFindByPriceRange(min, max) ==
    ProductsDone("findByPriceRange", 0,
                 ProductsService_findByPriceRange(products, productSeq, min, max))

\* GET /products/low-stock?threshold=
ProductsFindLowStock(threshold) ==
    ProductsDone("findLowStock", 0,
                 ProductsService_findLowStock(products, productSeq, threshold))

\* PATCH /products/:id
ProductsUpdate(id, dto) ==
    ProductsDone("update", id,
                 IF UpdateProductDtoValid(dto)
                 THEN ProductsService_update(products, productSeq, now + 1, id, dto)
                 ELSE Refused(products, productSeq))

\* PUT /products/:id/stock
ProductsUpdateStock(id, stock) ==
    ProductsDone("updateStock", id,
                 ProductsService_updateStock(products, productSeq, now + 1, id, stock))

\* DELETE /products/:id
ProductsRemove(id) ==
    ProductsDone("remove", id, ProductsService_remove(products, productSeq, id))

\* DELETE /products/:id/soft
ProductsSoftDelete(id) ==
    ProductsDone("softDelete", id,
                 ProductsService_softDelete(products, productSeq, now + 1, id))

\* DELETE /products/:id/hard
ProductsHardDelete(id) ==
    ProductsDone("hardDelete", id,
                 ProductsService_hardDelete(products, productSeq, id))

(***************************************************************************)
(* Concurrent requests to UsersController: a request runs up to its next   *)
(* await (a statement sent to the store), where any other request may run  *)
(***************************************************************************)
\* a task that has not received its request
Idle ==
    [op |-> "none", pc |-> "idle", id |-> 0, dto |-> NoBody, user |-> NoRow,
     outcome |-> "none"]

\* payloads of the concurrent requests: the email, and the age, are what the
\* requests race on
ConcCreateDto == { d \in CreateUserDto : DOMAIN d = {"name", "email"} /\ d.name = "Ana Ruiz" }
ConcUpdateDto == { d \in UpdateUserDto : DOMAIN d \in {{"email"}, {"age"}} }

Finish(p, outcome) ==
    reqs' = [reqs EXCEPT ![p].pc = "done", ![p].outcome = outcome]

\* the task receives POST /users and enters create
ConcCreate(p, dto) ==
    /\ reqs[p].pc = "idle"
    /\ reqs' = [reqs EXCEPT ![p] = [Idle EXCEPT !.op = "create", !.dto = dto,
                                                !.pc = "validate"]]
    /\ UNCHANGED <<users, userSeq, products, productSeq, now, last>>

\* the task receives PATCH /users/:id, DELETE /users/:id or
\* DELETE /users/:id/hard and enters update, remove or hardDelete
ConcEnter(p, op, id, dto) ==
    /\ reqs[p].pc = "idle"
    /\ reqs' = [reqs EXCEPT ![p] = [Idle EXCEPT !.op = op, !.id = id,
                                                !.dto = dto, !.pc = "findOne"]]
    /\ UNCHANGED <<users, userSeq, products, productSeq, now, last>>

\* const user = await this.findOne(id), and the synchronous code up to the
\* next await
ConcFindOne(p) ==
    LET r == reqs[p]
        found == UsersService_findOne(users, userSeq, r.id)
    IN
    /\ r.pc = "findOne"
    /\ reqs' = [reqs EXCEPT ![p] =
                  IF found.outcome # "Ok"
                  THEN [r EXCEPT !.pc = "done", !.outcome = found.outcome]
                  ELSE [r EXCEPT !.user = found.body,
                                 !.pc = CASE r.op = "hardDelete" -> "delete"
                                          [] r.op = "update"
                                             /\ EmailChanged(found.body, r.dto)
                                               -> "validate"
                                          [] OTHER -> "save"]]
    /\ UNCHANGED <<users, userSeq, products, productSeq, now, last>>

\* await this._validateEmailUniqueness(email)
ConcValidate(p) ==
    LET r == reqs[p] IN
    /\ r.pc = "validate"
    /\ IF ValidateEmailUniqueness(users, r.dto.email)
       THEN Finish(p, "Conflict")
       ELSE reqs' = [reqs EXCEPT ![p].pc = "save"]
    /\ UNCHANGED <<users, userSeq, products, productSeq, now, last>>

\* the entity a request hands to save
ConcEntity(r) ==
    CASE r.op = "create" -> UserRepoCreate(r.dto)
      [] r.op = "update" -> ObjectAssign(r.user, r.dto)
      [] OTHER -> [r.user EXCEPT !.isActive = FALSE]

\* await this._userRepository.save(user); an error of the store is caught in
\* create (BadRequestException) and nowhere else
ConcSave(p) ==
    LET r == reqs[p]
        s == UserRepoSave(users, userSeq, ConcEntity(r), now + 1)
    IN
    /\ r.pc = "save"
    /\ users' = s.store
    /\ userSeq' = s.seq
    /\ now' = IF s.wrote THEN now + 1 ELSE now
    /\ Finish(p, IF ~s.err THEN "Ok"
                 ELSE IF r.op = "create" THEN "BadRequest"
                 ELSE "InternalError")
    /\ UNCHANGED <<products, productSeq, last>>

\* await this._userRepository.remove(user)
ConcDelete(p) ==
    LET r == reqs[p] IN
    /\ r.pc = "delete"
    /\ users' = UserRepoRemove(users, r.user)
    /\ now' = now + 1
    /\ Finish(p, "Ok")
    /\ UNCHANGED <<userSeq, products, productSeq, last>>

(***************************************************************************)
(* Specifications                                                          *)
(***************************************************************************)
Init ==
    /\ users = {}
    /\ userSeq = 1
    /\ products = {}
    /\ productSeq = 1
    /\ now = 0
    /\ last = [op |-> "none", id |-> 0, outcome |-> "Ok", body |-> NoRow]
    /\ reqs = [p \in Tasks |-> Idle]

\* ids a request names: those the sequence has given out, and the next one,
\* which no row has
UserIds == 1 .. userSeq
ProductIds == 1 .. productSeq

\* the requests of UsersController
Next ==
    \/ \E dto \in CreateUserDto : UsersCreate(dto)
    \/ \E id \in UserIds : UsersFindOne(id)
    \/ \E id \in UserIds, dto \in UpdateUserDto : UsersUpdate(id, dto)
    \/ \E id \in UserIds : UsersRemove(id)
    \/ \E id \in UserIds : UsersHardDelete(id)

Spec == Init /\ [][Next]_vars

\* the requests of ProductsController
NextProducts ==
    \/ \E dto \in CreateProductBody : ProductsCreate(dto)
    \/ \E id \in ProductIds : ProductsFindOne(id)
    \/ \E min \in PriceBounds, max \in PriceBounds : ProductsFindByPriceRange(min, max)
    \/ \E threshold \in Thresholds : ProductsFindLowStock(threshold)
    \/ \E id \in ProductIds, dto \in UpdateProductBody : ProductsUpdate(id, dto)
    \/ \E id \in ProductIds, stock \in StockInputs : ProductsUpdateStock(id, stock)
    \/ \E id \in ProductIds : ProductsRemove(id)
    \/ \E id \in ProductIds : ProductsSoftDelete(id)
    \/ \E id \in ProductIds : ProductsHardDelete(id)

SpecProducts == Init /\ [][NextProducts]_vars

\* the requests of both controllers
NextAll ==
    /\ Next \/ NextProducts
    /\ now' <= MaxAllClock

SpecAll == Init /\ [][NextAll]_vars

\* the requests of UsersController, a PATCH body with a property id among them
NextBody ==
    /\ \/ Next
       \/ \E id \in UserIds, i \in UserIds :
              \E dto \in UpdateUserIdBody(i) : UsersUpdate(id, dto)
    /\ now' <= MaxBodyClock

SpecBody == Init /\ [][NextBody]_vars

\* requests to UsersController interleaved at their awaits
NextConc ==
    \E p \in Tasks :
        \/ \E dto \in ConcCreateDto : ConcCreate(p, dto)
        \/ \E id \in UserIds, dto \in ConcUpdateDto : ConcEnter(p, "update", id, dto)
        \/ \E id \in UserIds : ConcEnter(p, "remove", id, NoBody)
        \/ \E id \in UserIds : ConcEnter(p, "hardDelete", id, NoBody)
        \/ ConcFindOne(p)
        \/ ConcValidate(p)
        \/ ConcSave(p)
        \/ ConcDelete(p)

SpecConc == Init /\ [][NextConc]_vars

(***************************************************************************)
(* Properties                                                              *)
(***************************************************************************)
UserDtoFields == {"name", "email", "age", "isActive"}
ProductDtoFields ==
    {"name", "description", "price", "stock", "category", "isAvailable"}

\* C1: in every store state, UsersService.create with a payload whose email
\* is the email of a stored user yields Conflict and leaves the stored rows
\* as they are.
C1_CreateExistingEmailConflicts ==
    \A dto \in CreateUserDto :
        (\E u \in users : u.email = dto.email) =>
            LET r == UsersService_create(users, userSeq, now + 1, dto) IN
            r.outcome = "Conflict" /\ r.store = users

\* a create was answered Conflict while a user was stored
C1_Witness ==
    /\ last.op = "create"
    /\ last.outcome = "Conflict"
    /\ users # {}

\* C2: under every interleaving of concurrent create and update requests no
\* two stored users have the same email (nor the same id).
C2_EmailUnique ==
    \A u \in users, v \in users :
        (u.email = v.email \/ u.id = v.id) => u = v

\* a create and another create or update with the same email both passed
\* the pre-check; the store took the first write and refused the second
C2_Witness ==
    \E p \in Tasks, q \in Tasks :
        /\ reqs[p].op = "create" /\ reqs[p].outcome = "Ok"
        /\ \/ reqs[q].op = "create" /\ reqs[q].outcome = "BadRequest"
           \/ reqs[q].op = "update" /\ reqs[q].outcome = "InternalError"
        /\ Has(reqs[q].dto, "email")
        /\ reqs[p].dto.email = reqs[q].dto.email
        /\ \E u \in users : u.email = reqs[p].dto.email

\* C3: UsersService.update on a stored id leaves every field of the row that
\* the patch lacks as it was, and, when it succeeds, sets every field the
\* patch has to the patch's value (so a patch with age alone leaves name,
\* email and isActive).
C3_UpdateSetsPresentFieldsOnly ==
    \A id \in UserIds, dto \in UpdateUserDto :
        LET old == UserFindOneById(users, id)
            r == UsersService_update(users, userSeq, now + 1, id, dto)
            new == UserFindOneById(r.store, id)
        IN
        old # NoRow =>
            /\ new # NoRow
            /\ \A f \in UserDtoFields :
                  new[f] = IF Has(dto, f) /\ r.outcome = "Ok"
                           THEN dto[f] ELSE old[f]

\* a stored user without age on which the patch {age: 30} acts: the update
\* succeeds and the row has the age, and its name, email and isActive
C3_Witness ==
    \E u \in users :
        LET r == UsersService_update(users, userSeq, now + 1, u.id, [age |-> 30])
            new == UserFindOneById(r.store, u.id)
        IN
        /\ last.op = "update" /\ last.outcome = "Ok"
        /\ u.age = Null
        /\ r.outcome = "Ok"
        /\ new.age = 30
        /\ new.name = u.name /\ new.email = u.email /\ new.isActive = u.isActive

\* C4: ProductsService.update on a stored id succeeds for every patch (the
\* empty one too), sets the fields the patch has, leaves the fields it
\* lacks, and returns the row as stored after the update.
C4_ProductUpdateSetsPresentFields ==
    \A id \in ProductIds, dto \in UpdateProductDto :
        LET old == ProductGetOneById(products, id)
            r == ProductsService_update(products, productSeq, now + 1, id, dto)
            new == ProductGetOneById(r.store, id)
        IN
        old # NoRow =>
            /\ r.outcome = "Ok"
            /\ new # NoRow
            /\ \A f \in ProductDtoFields :
                  new[f] = IF Has(dto, f) THEN dto[f] ELSE old[f]
            /\ r.body = new

\* an update returned the row as stored, and the empty patch succeeds on it
C4_Witness ==
    /\ last.op = "update"
    /\ last.outcome = "Ok"
    /\ last.body \in products
    /\ last.body.updatedAt > last.body.createdAt
    /\ ProductsService_update(products, productSeq, now + 1, last.id, NoBody).outcome
         = "Ok"

\* the fields of a user row that remove is claimed to leave
C5_Kept(fields) ==
    \A id \in UserIds :
        LET old == UserFindOneById(users, id)
            rm == UsersService_remove(users, userSeq, now + 1, id)
            after == UsersService_findOne(rm.store, rm.seq, id)
            hd == UsersService_hardDelete(users, userSeq, id)
        IN
        old # NoRow =>
            /\ rm.outcome = "Ok"
            /\ after.outcome = "Ok"
            /\ after.body.isActive = FALSE
            /\ \A f \in fields : after.body[f] = old[f]
            /\ hd.outcome = "Ok"
            /\ UsersService_findOne(hd.store, hd.seq, id).outcome = "NotFound"

\* C5 as stated: after remove, findOne returns the row with isActive false
\* and every other field (updatedAt among them) as before; after hardDelete,
\* findOne yields NotFound.
C5_RemoveKeepsEveryOtherField ==
    C5_Kept({"id", "name", "email", "age", "createdAt", "updatedAt"})

\* C5 as amended: after remove, findOne returns the row with isActive false
\* and id, name, email, age and createdAt as before (updatedAt is set by the
\* write); after hardDelete, findOne yields NotFound.
C5_RemoveKeepsRow ==
    C5_Kept({"id", "name", "email", "age", "createdAt"})

\* a remove was answered Ok and the row is stored, inactive
C5_Witness ==
    /\ last.op = "remove"
    /\ last.outcome = "Ok"
    /\ \E u \in users : u.id = last.id /\ ~u.isActive /\ u.updatedAt > u.createdAt

\* C6: ProductsService.updateStock with a negative stock on a stored id
\* yields BadRequest and leaves every row as it was.
C6_NegativeStockRejected ==
    \A id \in ProductIds, newStock \in StockInputs :
        LET r == ProductsService_updateStock(products, productSeq, now + 1,
                                             id, newStock)
        IN
        (newStock < 0 /\ ProductGetOneById(products, id) # NoRow) =>
            r.outcome = "BadRequest" /\ r.store = products

\* an updateStock was answered BadRequest with two products stored
C6_Witness ==
    /\ last.op = "updateStock"
    /\ last.outcome = "BadRequest"
    /\ Cardinality(products) = 2
    /\ \E r \in products : r.id = last.id

\* a result that is NotFound and leaves the store
NotFoundUnchanged(r, store, seq) ==
    r.outcome = "NotFound" /\ r.store = store /\ r.seq = seq

\* C7: every operation that takes an id yields NotFound and leaves the store
\* when no row has the id (updateStock: with a stock >= 0).
C7_MissingIdNotFound ==
    /\ \A id \in UserIds :
          UserFindOneById(users, id) = NoRow =>
            /\ NotFoundUnchanged(UsersService_findOne(users, userSeq, id),
                                 users, userSeq)
            /\ \A dto \in UpdateUserDto :
                  NotFoundUnchanged(
                      UsersService_update(users, userSeq, now + 1, id, dto),
                      users, userSeq)
            /\ NotFoundUnchanged(UsersService_remove(users, userSeq, now + 1, id),
                                 users, userSeq)
            /\ NotFoundUnchanged(UsersService_hardDelete(users, userSeq, id),
                                 users, userSeq)
    /\ \A id \in ProductIds :
          ProductGetOneById(products, id) = NoRow =>
            /\ NotFoundUnchanged(
                   ProductsService_findOne(products, productSeq, id),
                   products, productSeq)
            /\ \A dto \in UpdateProductDto :
                  NotFoundUnchanged(
                      ProductsService_update(products, productSeq, now + 1, id, dto),
                      products, productSeq)
            /\ \A newStock \in StockInputs :
                  newStock >= 0 =>
                    NotFoundUnchanged(
                        ProductsService_updateStock(products, productSeq,
                                                    now + 1, id, newStock),
                        products, productSeq)
            /\ NotFoundUnchanged(ProductsService_remove(products, productSeq, id),
                                 products, productSeq)
            /\ NotFoundUnchanged(
                   ProductsService_softDelete(products, productSeq, now + 1, id),
                   products, productSeq)
            /\ NotFoundUnchanged(
                   ProductsService_hardDelete(products, productSeq, id),
                   products, productSeq)

\* a request was answered NotFound while both tables held rows
C7_Witness ==
    /\ last.outcome = "NotFound"
    /\ last.op \in {"update", "updateStock", "softDelete"}
    /\ users # {}
    /\ products # {}

\* C8: UsersService.update with an email that is not the user's and is
\* another stored user's yields Conflict and leaves every row; with the
\* user's own email it does not yield Conflict and the patch is applied.
C8_UpdateEmailConflict ==
    \A id \in UserIds, dto \in UpdateUserDto :
        LET old == UserFindOneById(users, id)
            r == UsersService_update(users, userSeq, now + 1, id, dto)
            new == UserFindOneById(r.store, id)
        IN
        (old # NoRow /\ Has(dto, "email")) =>
            /\ (dto.email # old.email
                /\ \E u \in users : u.id # id /\ u.email = dto.email)
               => (r.outcome = "Conflict" /\ r.store = users)
            /\ dto.email = old.email
               => /\ r.outcome = "Ok"
                  /\ \A f \in UserDtoFields :
                        new[f] = IF Has(dto, f) THEN dto[f] ELSE old[f]

\* an update was answered Conflict with two users stored, and a patch with
\* the user's own email and a new name is applied to one of them
C8_Witness ==
    /\ last.op = "update"
    /\ last.outcome = "Conflict"
    /\ Cardinality(users) = 2
    /\ \E u \in users, n \in Names :
          LET r == UsersService_update(users, userSeq, now + 1, u.id,
                                       [email |-> u.email, name |-> n])
          IN
          /\ n # u.name
          /\ r.outcome = "Ok"
          /\ UserFindOneById(r.store, u.id).name = n

\* the fields of a product row that softDelete is claimed to leave
C9_Kept(fields) ==
    \A id \in ProductIds :
        LET old == ProductGetOneById(products, id)
            rm == ProductsService_remove(products, productSeq, id)
            hd == ProductsService_hardDelete(products, productSeq, id)
            sd == ProductsService_softDelete(products, productSeq, now + 1, id)
            new == ProductGetOneById(sd.store, id)
        IN
        old # NoRow =>
            /\ rm = hd
            /\ rm.outcome = "Ok"
            /\ rm.store = products \ {old}
            /\ sd.outcome = "Ok"
            /\ new # NoRow
            /\ new.isAvailable = FALSE
            /\ \A f \in fields : new[f] = old[f]

\* C9 as stated: remove and hardDelete both delete the row; softDelete keeps
\* it, sets isAvailable false and leaves every other field (updatedAt among
\* them).
C9_SoftDeleteKeepsEveryOtherField ==
    C9_Kept({"id", "name", "description", "price", "stock", "category",
             "createdAt", "updatedAt"})

\* C9 as amended: remove and hardDelete both delete the row; softDelete
\* keeps it, sets isAvailable false and leaves id, name, description, price,
\* stock, category and createdAt (updatedAt is set by the write).
C9_SoftDeleteKeepsRow ==
    C9_Kept({"id", "name", "description", "price", "stock", "category",
             "createdAt"})

\* a softDelete was answered Ok and the row is stored, not available
C9_Witness ==
    /\ last.op = "softDelete"
    /\ last.outcome = "Ok"
    /\ \E r \in products :
          r.id = last.id /\ ~r.isAvailable /\ r.updatedAt > r.createdAt

\* C10: ProductsService.findByPriceRange(min, max) returns the stored
\* products whose price is at least min and at most max, all of them and no
\* other.
C10_PriceRangeInclusive ==
    \A min \in PriceBounds, max \in PriceBounds :
        LET r == ProductsService_findByPriceRange(products, productSeq, min, max)
        IN
        /\ r.store = products
        /\ r.body \subseteq products
        /\ \A p \in products :
              p \in r.body <=> (min * 100 <= p.price /\ p.price <= max * 100)

\* a price range query returned a product priced at its bound and left out
\* another stored product
C10_Witness ==
    /\ last.op = "findByPriceRange"
    /\ \E p \in last.body : p.price = 1000
    /\ \E p \in products : p \notin last.body

\* C11: ProductsService.findLowStock(threshold) returns the stored products
\* whose stock is at most the threshold, all of them, and no product whose
\* stock is above it; it leaves the stored rows as they are.
C11_LowStockAtMostThreshold ==
    \A threshold \in Thresholds :
        LET r == ProductsService_findLowStock(products, productSeq, threshold)
        IN
        /\ r.outcome = "Ok"
        /\ r.store = products
        /\ r.body \subseteq products
        /\ \A p \in products : p \in r.body <=> p.stock <= threshold
        /\ \A p \in r.body : ~(p.stock > threshold)

\* a low-stock query returned a product whose stock is the threshold and
\* left out a stored product with more
C11_Witness ==
    /\ last.op = "findLowStock"
    /\ \E threshold \in Thresholds :
          /\ last.body =
                ProductsService_findLowStock(products, productSeq, threshold).body
          /\ \E p \in last.body : p.stock = threshold
          /\ \E p \in products : p.stock > threshold /\ p \notin last.body

\* C12: a successful create stores the record it returns, and the record has
\* the payload's fields, with the default for every optional field the
\* payload lacks: a user without age and isActive has age null and isActive
\* true, a product without description, stock and isAvailable has
\* description null, stock 0 and isAvailable true; a value the payload gives
\* (isActive false, isAvailable false, a stock) is stored as given.
C12_CreateStoresPayloadWithDefaults ==
    /\ \A dto \in CreateUserDto :
          LET r == UsersService_create(users, userSeq, now + 1, dto) IN
          r.outcome = "Ok" =>
            /\ r.body \in r.store
            /\ r.store = users \cup {r.body}
            /\ r.body.name = dto.name
            /\ r.body.email = dto.email
            /\ r.body.age = IF Has(dto, "age") THEN dto.age ELSE Null
            /\ r.body.isActive = IF Has(dto, "isActive") THEN dto.isActive
                                 ELSE TRUE
    /\ \A dto \in CreateProductDto :
          LET r == ProductsService_create(products, productSeq, now + 1, dto) IN
          /\ r.outcome = "Ok"
          /\ r.body \in r.store
          /\ r.store = products \cup {r.body}
          /\ r.body.name = dto.name
          /\ r.body.price = dto.price
          /\ r.body.category = dto.category
          /\ r.body.description = IF Has(dto, "description") THEN dto.description
                                  ELSE NullText
          /\ r.body.stock = IF Has(dto, "stock") THEN dto.stock ELSE 0
          /\ r.body.isAvailable = IF Has(dto, "isAvailable") THEN dto.isAvailable
                                  ELSE TRUE

\* a product was created with isAvailable false and is stored so, next to a
\* user stored with age null and isActive true, and a product payload with
\* the required fields alone is stored with stock 0 and isAvailable true
C12_Witness ==
    /\ last.op = "create"
    /\ last.outcome = "Ok"
    /\ last.body \in products
    /\ last.body.isAvailable = FALSE
    /\ \E u \in users : u.age = Null /\ u.isActive
    /\ \E dto \in CreateProductDto :
          LET r == ProductsService_create(products, productSeq, now + 1, dto) IN
          /\ DOMAIN dto = {"name", "price", "category"}
          /\ r.body.stock = 0
          /\ r.body.isAvailable

\* the outcome of updateStock with a negative stock on an id no row has
C13_Outcome(outcome) ==
    \A id \in ProductIds, newStock \in StockInputs :
        LET r == ProductsService_updateStock(products, productSeq, now + 1,
                                             id, newStock)
        IN
        (newStock < 0 /\ ProductGetOneById(products, id) = NoRow) =>
            r.outcome = outcome /\ r.store = products

\* C13 as stated: updateStock validates newStock before it loads the row: a
\* negative newStock on an id that is not stored yields BadRequest.
C13_ValidatesBeforeLoading == C13_Outcome("BadRequest")

\* C13 as amended: updateStock loads the row before it validates newStock: a
\* negative newStock on an id that is not stored yields NotFound, and no row
\* changes.
C13_LoadsBeforeValidating == C13_Outcome("NotFound")

\* an updateStock on an id that is not stored was answered NotFound while a
\* product was stored, and a negative stock on that id is answered so
C13_Witness ==
    /\ last.op = "updateStock"
    /\ last.outcome = "NotFound"
    /\ products # {}
    /\ ProductGetOneById(products, last.id) = NoRow
    /\ ProductsService_updateStock(products, productSeq, now + 1, last.id, -1).outcome
         = "NotFound"

\* C14: every create that ends on a uniqueness violation ends with Conflict,
\* the one the store's unique constraint raises at insert time (two
\* concurrent creates with one email, both past the pre-check) included: the
\* losing create yields Conflict, not BadRequest.
C14_CreateUniquenessViolationConflicts ==
    \A p \in Tasks :
        (reqs[p].op = "create" /\ reqs[p].pc = "done"
         /\ reqs[p].outcome # "Ok") =>
            reqs[p].outcome = "Conflict"

\* C15: in every state the product operations reach (create and update with
\* the bodies ValidationPipe lets through, updateStock, softDelete, remove,
\* hardDelete), every stored product has stock >= 0.
C15_StockNeverNegative ==
    \A p \in products : p.stock >= 0

\* an updateStock was answered Ok and the row has the new stock, and a body
\* with a negative stock is refused for create and for update of that row
C15_Witness ==
    /\ last.op = "updateStock"
    /\ last.outcome = "Ok"
    /\ \E p \in products :
          p.id = last.id /\ p.stock = 5 /\ p.updatedAt > p.createdAt
    /\ \E dto \in CreateProductBody : ~CreateProductDtoValid(dto)
    /\ ~UpdateProductDtoValid([stock |-> -1])
    /\ ProductsService_updateStock(products, productSeq, now + 1, last.id, -1).outcome
         = "BadRequest"

C17_UpdateWritesTargetOnly ==
    \A id \in UserIds, i \in UserIds :
        \A dto \in UpdateUserDto \cup UpdateUserIdBody(i) :
            LET r == UsersService_update(users, userSeq, now + 1, id, dto) IN
            /\ \A u \in users : u.id # id => u \in r.store
            /\ \A v \in r.store : v.id # id => v \in users
            /\ UserFindOneById(users, id) # NoRow
                 => UserFindOneById(r.store, id) # NoRow

====
